---- MODULE Spec2Model ----
(***************************************************************************)
(* A model of the RELP engine of librelp (src/src/relp.c): the engine's    *)
(* listener list and session list, the select() loop of relpEngineRun, the *)
(* command dispatcher relpEngineDispatchFrame and an embedder thread that  *)
(* calls relpEngineSetDbgprint, relpEngineAddListner and                    *)
(* relpEngineDestruct while the engine runs; and the transaction registry  *)
(* of a session, which relp.c only describes (lines 53-60, 104-107).       *)
(***************************************************************************)
EXTENDS Integers, Sequences, FiniteSets, TLC

\* ------------------------------------------------------------------ bounds
\* listeners the embedder ever adds
MaxSrv == 1
\* listen sockets one listener may own (IPv4, IPv6)
MaxLstnSocks == 1
\* sessions ever accepted
MaxSess == 2
\* transaction numbers carried by inbound frames: 1..MaxTxnr
MaxTxnr == 1
\* complete frames one read of a session socket may deliver
MaxFrames == 1

\* the largest transaction number of the registry (999 by default)
MAX_TXNR == 4
\* window sizes a session may negotiate: 1..MaxWindow (128 by default)
MaxWindow == 3

NULL == 0
SrvIds == 1..MaxSrv
SessIds == 1..MaxSess

\* ------------------------------------------------------------ return codes
RELP_RET_OK == "RELP_RET_OK"
RELP_RET_OUT_OF_MEMORY == "RELP_RET_OUT_OF_MEMORY"
RELP_RET_INVALID_CMD == "RELP_RET_INVALID_CMD"
\* results of the session and frame objects (relpsess.c, relpframe.c)
RELP_RET_IO_ERR == "TransportError"
RELP_RET_INVALID_FRAME == "FrameMalformed"
RELP_RET_PROTOCOL == "ProtocolViolation"

\* the commands the protocol description defines (relp.c line 86)
DefinedCmds == {"init", "go", "msg", "close", "rsp", "abort"}
\* a command name outside the defined set
UnknownCmd == "foo"
\* the commands relpEngineDispatchFrame compares the frame's command against
RecognizedCmds == {"init", "go"}

\* frames the peer may send: the init frame carries offers that the server
\* either accepts ("good") or not ("bad")
Frames ==
  {[txnr |-> t, cmd |-> c, data |-> d] :
      t \in 1..MaxTxnr, c \in (DefinedCmds \cup {UnknownCmd}) \ {"init"}, d \in {"x"}}
  \cup {[txnr |-> t, cmd |-> "init", data |-> d] : t \in 1..MaxTxnr, d \in {"good", "bad"}}

\* ------------------------------------------------------------------- state
VARIABLES
  pSrvLst,        \* engine: the listener list, pSrvLstRoot .. pSrvLstLast
  lenSrvLst,      \* engine: its length counter
  mutSrvLst,      \* engine: holder of the listener list's mutex
  pSessLst,       \* engine: the session list, pSessLstRoot .. pSessLstLast
  lenSessLst,     \* engine: its length counter
  mutSessLst,     \* engine: holder of the session list's mutex
  dbgprint,       \* engine: the debug print pointer
  srv,            \* the listener objects: life, number of listen sockets
  sess,           \* the session objects: life, state, outbound queue
  pc,             \* relpEngineRun: position
  pSrvEtry,       \* relpEngineRun: listener list cursor
  iSocks,         \* relpEngineRun: listen socket index
  pSessEtry,      \* relpEngineRun: session list cursor
  pSessEtryNext,  \* relpEngineRun: cached successor of the cursor
  readfds,        \* relpEngineRun: the descriptor set
  apiPc,          \* the embedder thread: position (inside relpEngineAddListner, or done)
  apiSrv,         \* the embedder thread: the listener being added
  last,           \* observation of the last receive on a session
  lastAccept,     \* observation of the last accept on a listen socket
  reg,            \* the transaction registry of one session
  toVisit         \* the sessions the running session pass has yet to visit

vars == <<pSrvLst, lenSrvLst, mutSrvLst, pSessLst, lenSessLst, mutSessLst,
          dbgprint, srv, sess, pc, pSrvEtry, iSocks, pSessEtry, pSessEtryNext,
          readfds, apiPc, apiSrv, last, lastAccept, reg,
          toVisit>>

engineVars == <<pSrvLst, lenSrvLst, mutSrvLst, pSessLst, lenSessLst, mutSessLst, dbgprint>>
runVars == <<pc, pSrvEtry, iSocks, pSessEtry, pSessEtryNext, readfds>>
apiVars == <<apiPc, apiSrv>>


\* --------------------------------------------------------- list primitives
\* dbllinklist.h: append an entry after pLast
DLL_Add(lst, e) == Append(lst, e)

\* dbllinklist.h: unlink an entry, its neighbours are joined
DLL_Del(lst, e) == SelectSeq(lst, LAMBDA x : x # e)

\* pRoot of a list
Root(lst) == IF lst = <<>> THEN NULL ELSE lst[1]

\* e->pNext; an entry that is not linked keeps no successor in this model
NextOf(lst, e) ==
  IF \E i \in 1..Len(lst) : lst[i] = e /\ i < Len(lst)
    THEN lst[(CHOOSE i \in 1..Len(lst) : lst[i] = e) + 1]
    ELSE NULL

InList(lst, e) == \E i \in 1..Len(lst) : lst[i] = e

\* ------------------------------------------------------------- descriptors
\* relpSrvGetLstnSock(pSrv, i) and relpSessGetSock(pSess): distinct descriptors
LstnSock(s, i) == 10 * s + i
SessSock(s) == 100 + s

\* ------------------------------------------------------- session and frames
\* relpSessAcceptAndConstruct leaves a fresh session in its initial state
NewSess == [life |-> "live", state |-> "INIT", outq |-> <<>>]
UnbornSess == [life |-> "unborn", state |-> "INIT", outq |-> <<>>]
\* relpSessDestruct frees the session object with all it holds
FreedSess == [life |-> "destructed", state |-> "FREED", outq |-> <<>>]

\* the response frame a handler puts on the session's outbound queue
Rsp(txnr, code) == [txnr |-> txnr, cmd |-> "rsp", code |-> code]

\* relpSCInit, the server's handler of "init": it answers the offers with a
\* positive response and the session waits for the client's selection; an init
\* in any other state, or offers the server cannot accept, is an error
relpSCInit(S, f) ==
  IF S.state = "INIT" /\ f.data = "good"
    THEN [ret |-> RELP_RET_OK,
          sess |-> [S EXCEPT !.state = "OFFERS", !.outq = Append(@, Rsp(f.txnr, 200))]]
    ELSE [ret |-> RELP_RET_PROTOCOL, sess |-> [S EXCEPT !.state = "BROKEN"]]

\* a dispatcher whose last branch only prints: a command it does not know is
\* answered with RELP_RET_OK
relpEngineDispatchFrame_IgnoresUnknown(S, f) ==
  IF f.cmd = "init"
    THEN LET r == relpSCInit(S, f)
         IN [ret |-> r.ret, sess |-> r.sess, handler |-> "init"]
    ELSE [ret |-> RELP_RET_OK, sess |-> S, handler |-> "none"]

\* a dispatcher with a "msg" branch that acknowledges the message whatever the
\* session's state is
relpEngineDispatchFrame_MsgAnyState(S, f) ==
  IF f.cmd = "init"
    THEN LET r == relpSCInit(S, f)
         IN [ret |-> r.ret, sess |-> r.sess, handler |-> "init"]
  ELSE IF f.cmd = "go"
    THEN [ret |-> RELP_RET_OK, sess |-> S, handler |-> "none"]
  ELSE IF f.cmd = "msg"
    THEN [ret |-> RELP_RET_OK,
          sess |-> [S EXCEPT !.outq = Append(@, Rsp(f.txnr, 200))], handler |-> "msg"]
  ELSE [ret |-> RELP_RET_INVALID_CMD, sess |-> S, handler |-> "none"]

\* relpEngineDispatchFrame: the result, the session afterwards and the command
\* handler that was called ("none": no handler)
relpEngineDispatchFrame(S, f) ==
  IF f.cmd = "init"
    THEN LET r == relpSCInit(S, f)
         IN [ret |-> r.ret, sess |-> r.sess, handler |-> "init"]
  ELSE IF f.cmd = "go"
    THEN [ret |-> RELP_RET_OK, sess |-> S, handler |-> "none"]
  ELSE [ret |-> RELP_RET_INVALID_CMD, sess |-> S, handler |-> "none"]

\* number of elements of a sequence that satisfy Test
Count(q, e) == Len(SelectSeq(q, LAMBDA x : x = e))

\* one dispatch as observed from outside: the command, the result, the handler
\* that ran, the session's protocol state before and after, whether the session
\* was left as it was, and how many positive responses carrying the frame's
\* txnr the dispatch put on the outbound queue
DispRec(f, S, r) ==
  [cmd |-> f.cmd, ret |-> r.ret, handler |-> r.handler,
   pre |-> S.state, post |-> r.sess.state, same |-> (r.sess = S),
   rsp |-> Count(r.sess.outq, Rsp(f.txnr, 200))
             - Count(S.outq, Rsp(f.txnr, 200))]

\* no frame was dispatched
NoDisp ==
  [cmd |-> "none", ret |-> RELP_RET_OK, handler |-> "none",
   pre |-> "none", post |-> "none", same |-> TRUE, rsp |-> 0]

\* the frames of one read are dispatched in arrival order and the first error
\* ends the read and is its result: the results of a read that holds at most n
\* further complete frames. disp observes the frame dispatched last
RECURSIVE Drain(_, _, _)
Drain(S, n, disp) ==
  {[ret |-> RELP_RET_OK, sess |-> S, disp |-> disp]}
  \cup
  (IF n = 0 THEN {}
   ELSE UNION {LET r == relpEngineDispatchFrame(S, f)
                   d == DispRec(f, S, r)
               IN IF r.ret # RELP_RET_OK
                    THEN {[ret |-> r.ret, sess |-> r.sess, disp |-> d]}
                    ELSE Drain(r.sess, n - 1, d) : f \in Frames})

\* relpSessRcvData: read the socket, feed the frame decoder, dispatch every
\* complete frame; a read error, a malformed frame or a failed dispatch is
\* returned to the engine loop. The results the call may have on session S:
\* the read fails, or it yields up to MaxFrames frames, which may be followed
\* by bytes that violate the frame grammar
relpSessRcvData(S) ==
  {[ret |-> RELP_RET_IO_ERR, sess |-> S, disp |-> NoDisp]}
  \cup Drain(S, MaxFrames, NoDisp)
  \cup {[ret |-> RELP_RET_INVALID_FRAME, sess |-> r.sess, disp |-> r.disp] :
          r \in {x \in Drain(S, MaxFrames, NoDisp) : x.ret = RELP_RET_OK}}

\* results of relpSessAcceptAndConstruct (relpsess.c): accept() failed in a
\* way that may pass (interrupted, would block), or for good (bad descriptor)
RELP_RET_ACCEPT_RETRY == "AcceptTransient"
RELP_RET_ACCEPT_ERR == "AcceptFatal"
AcceptResults == {RELP_RET_OK, RELP_RET_ACCEPT_RETRY, RELP_RET_ACCEPT_ERR}

\* no accept was made
NoAccept ==
  [sock |-> NULL, srv |-> NULL, accRet |-> RELP_RET_OK, ret |-> RELP_RET_OK, sess |-> NULL]

\* nothing was received
NoLast == [sess |-> NULL, ret |-> RELP_RET_OK, disp |-> NoDisp, logged |-> FALSE]

\* a loop that tears the session down only for a command it does not know
MustTearDown_OnlyInvalidCmd(ret) == ret = RELP_RET_INVALID_CMD

\* relpEngineRun, line 455: the receive results that make the loop tear the
\* session down
MustTearDown(ret) == ret # RELP_RET_OK

\* the fresh session identifier of the next accept (NULL: none left)
FreshSess ==
  IF \E s \in SessIds : sess[s].life = "unborn"
    THEN CHOOSE s \in SessIds : sess[s].life = "unborn" /\ \A t \in 1..(s - 1) : sess[t].life # "unborn"
    ELSE NULL

FreshSrv ==
  IF \E s \in SrvIds : srv[s].life = "unborn"
    THEN CHOOSE s \in SrvIds : srv[s].life = "unborn" /\ \A t \in 1..(s - 1) : srv[t].life # "unborn"
    ELSE NULL

\* relpSrvGetNumLstnSocks
relpSrvGetNumLstnSocks(s) == srv[s].nSocks

\* ------------------------------------------------ transaction registry
\* results of the registry's operations
WindowExhausted == "WindowExhausted"
UnknownTxnr == "UnknownTxnr"

\* the registry of a session that has sent nothing yet: outstanding holds the
\* txnr of every pending command, oldest first; op, ret, txnr and sent observe
\* the last operation: which it was, its result, the txnr it assigned (0: none)
\* and whether it put a frame on the wire
NewRegistry(w) ==
  [window_size |-> w, next_send_txnr |-> 1, outstanding |-> <<>>,
   op |-> "none", ret |-> RELP_RET_OK, txnr |-> 0, sent |-> FALSE]

\* the txnr after t: MAX_TXNR is followed by 1
NextTxnr(t) == IF t = MAX_TXNR THEN 1 ELSE t + 1

\* an assign() that lets one command more than the window pass
assign_OneTooMany(R) ==
  IF Len(R.outstanding) > R.window_size
    THEN [R EXCEPT !.op = "assign", !.ret = WindowExhausted, !.txnr = 0, !.sent = FALSE]
    ELSE [R EXCEPT !.op = "assign", !.ret = RELP_RET_OK, !.txnr = R.next_send_txnr,
                   !.sent = TRUE,
                   !.next_send_txnr = NextTxnr(R.next_send_txnr),
                   !.outstanding = Append(@, R.next_send_txnr)]

\* assign(): with the window full the caller cannot send now; else the command
\* gets next_send_txnr, which advances, the entry is inserted and the frame
\* goes on the wire
assign(R) ==
  IF Len(R.outstanding) >= R.window_size
    THEN [R EXCEPT !.op = "assign", !.ret = WindowExhausted, !.txnr = 0, !.sent = FALSE]
    ELSE [R EXCEPT !.op = "assign", !.ret = RELP_RET_OK, !.txnr = R.next_send_txnr,
                   !.sent = TRUE,
                   !.next_send_txnr = NextTxnr(R.next_send_txnr),
                   !.outstanding = Append(@, R.next_send_txnr)]

\* a sequence without its first element equal to e
RemoveFirst(q, e) ==
  LET i == CHOOSE k \in 1..Len(q) : q[k] = e /\ \A j \in 1..(k - 1) : q[j] # e
  IN SubSeq(q, 1, i - 1) \o SubSeq(q, i + 1, Len(q))

\* cancel_all(): the session is torn down, every pending entry is resolved
\* with a failure; the session that follows starts with a fresh registry
cancel_all(R) == [NewRegistry(R.window_size) EXCEPT !.op = "cancel_all"]

\* resolve(txnr): the entry of a response's txnr is removed; a txnr that is
\* not outstanding aborts the session
resolve(R, t) ==
  IF \E k \in 1..Len(R.outstanding) : R.outstanding[k] = t
    THEN [R EXCEPT !.op = "resolve", !.ret = RELP_RET_OK, !.txnr = 0, !.sent = FALSE,
                   !.outstanding = RemoveFirst(@, t)]
    ELSE [cancel_all(R) EXCEPT !.op = "resolve", !.ret = UnknownTxnr]

\* -------------------------------------------------------------------- Init
\* the state relpEngineConstruct leaves: calloc zeroes the object, so both
\* lists are empty, both counters 0 and the debug pointer is NULL
EngineInit ==
  /\ pSrvLst = <<>> /\ lenSrvLst = 0 /\ mutSrvLst = "free"
  /\ pSessLst = <<>> /\ lenSessLst = 0 /\ mutSessLst = "free"
  /\ dbgprint = "NULL"
  /\ srv = [s \in SrvIds |-> [life |-> "unborn", nSocks |-> 0]]
  /\ sess = [s \in SessIds |-> UnbornSess]
  /\ pc = "notStarted"
  /\ pSrvEtry = NULL /\ iSocks = 0 /\ pSessEtry = NULL /\ pSessEtryNext = NULL
  /\ readfds = {}
  /\ apiPc = "idle" /\ apiSrv = NULL
  /\ last = NoLast
  /\ lastAccept = NoAccept
  /\ toVisit = <<>>

\* the engine after relpEngineConstruct; no session exists, the registry is
\* that of a session to come
Init == EngineInit /\ reg = NewRegistry(MaxWindow)

\* ------------------------------------------------- the embedder's thread
\* relpEngineSetDbgprint: a NULL argument selects the no-op dbgprintDummy
relpEngineSetDbgprint(f) ==
  /\ pc # "crashed" /\ apiPc = "idle"
  /\ dbgprint' = (IF f = "NULL" THEN "dummy" ELSE f)
  /\ UNCHANGED <<toVisit, reg, lastAccept, pSrvLst, lenSrvLst, mutSrvLst, pSessLst, lenSessLst, mutSessLst,
                 srv, sess, runVars, apiVars, last>>

\* a relpEngineAddListner that does not check the result of relpSrvRun
AddListner_Result_IgnoresRun(ok, mem) ==
  IF ~mem THEN [ret |-> RELP_RET_OUT_OF_MEMORY, add |-> FALSE]
  ELSE [ret |-> (IF ok THEN RELP_RET_OK ELSE RELP_RET_IO_ERR), add |-> TRUE]

\* relpEngineAddListner, lines 347-352, and relpEngineAddToSrvList, lines
\* 198-199: the CHKRet chain. ok: relpSrvConstruct, relpSrvSetLstnPort and
\* relpSrvRun all succeed; mem: the calloc of the list entry succeeds. The
\* result the call is heading for, and whether it goes on to link the entry
AddListner_Result(ok, mem) ==
  IF ~ok THEN [ret |-> RELP_RET_IO_ERR, add |-> FALSE]
  ELSE IF ~mem THEN [ret |-> RELP_RET_OUT_OF_MEMORY, add |-> FALSE]
  ELSE [ret |-> RELP_RET_OK, add |-> TRUE]

\* the embedder's thread at finalize_it of relpEngineAddListner with iRet = ret
Finalize(ret) == IF ret = RELP_RET_OUT_OF_MEMORY THEN "finalize_OOM" ELSE "finalize_ERR"

\* relpEngineAddListner up to the point where relpEngineAddToSrvList takes the
\* mutex: the listener is constructed, given its port and started, then the
\* list entry is allocated. A call that fails goes to finalize_it; a listener
\* that does not reach the list is referenced by nothing and is left out of
\* the state. ok tells whether the listener the call holds is started
relpEngineAddListner(ok, n, mem) ==
  /\ pc # "crashed" /\ apiPc = "idle" /\ FreshSrv # NULL
  /\ LET r == AddListner_Result(ok, mem)
     IN IF r.add
          THEN /\ srv' = [srv EXCEPT ![FreshSrv] =
                            [life |-> (IF ok THEN "live" ELSE "failed"), nSocks |-> n]]
               /\ apiPc' = "lock" /\ apiSrv' = FreshSrv
          ELSE apiPc' = Finalize(r.ret) /\ UNCHANGED <<srv, apiSrv>>
  /\ UNCHANGED <<toVisit, reg, lastAccept, engineVars, sess, runVars, last>>

\* relpEngineAddListner, lines 354-355: the failed call returns its error
AddListner_Return ==
  /\ pc # "crashed" /\ apiPc \in {"finalize_OOM", "finalize_ERR"}
  /\ apiPc' = "idle"
  /\ UNCHANGED <<toVisit, reg, lastAccept, engineVars, srv, sess, runVars, apiSrv, last>>

\* relpEngineAddToSrvList, line 203: pthread_mutex_lock
AddToSrvList_Lock ==
  /\ pc # "crashed" /\ apiPc = "lock" /\ mutSrvLst = "free"
  /\ mutSrvLst' = "api" /\ apiPc' = "add"
  /\ UNCHANGED <<toVisit, reg, lastAccept, pSrvLst, lenSrvLst, pSessLst, lenSessLst, mutSessLst, dbgprint,
                 srv, sess, runVars, apiSrv, last>>

\* relpEngineAddToSrvList, line 204: DLL_Add
AddToSrvList_Add ==
  /\ pc # "crashed" /\ apiPc = "add"
  /\ pSrvLst' = DLL_Add(pSrvLst, apiSrv) /\ apiPc' = "inc"
  /\ UNCHANGED <<toVisit, reg, lastAccept, lenSrvLst, mutSrvLst, pSessLst, lenSessLst, mutSessLst, dbgprint,
                 srv, sess, runVars, apiSrv, last>>

\* relpEngineAddToSrvList, lines 205-206: the counter, pthread_mutex_unlock
AddToSrvList_Unlock ==
  /\ pc # "crashed" /\ apiPc = "inc"
  /\ lenSrvLst' = lenSrvLst + 1 /\ mutSrvLst' = "free"
  /\ apiPc' = "idle" /\ apiSrv' = NULL
  /\ UNCHANGED <<toVisit, reg, lastAccept, pSrvLst, pSessLst, lenSessLst, mutSessLst, dbgprint,
                 srv, sess, runVars, last>>

\* the embedder asks the engine to stop and makes no further call; relp.c
\* offers no call for it and relpEngineRun reads no such request
PostShutdown ==
  /\ pc # "crashed" /\ apiPc = "idle"
  /\ apiPc' = "shutdown"
  /\ UNCHANGED <<toVisit, reg, lastAccept, engineVars, srv, sess, runVars, apiSrv, last>>

\* the shutdown request is pending
shutdown == apiPc = "shutdown"

\* ------------------------------------------------------- relpEngineRun
\* the embedder starts relpEngineRun on a thread of its own
Run_Enter ==
  /\ pc = "notStarted"
  /\ pc' = "top"
  /\ UNCHANGED <<toVisit, reg, lastAccept, engineVars, srv, sess, pSrvEtry, iSocks, pSessEtry, pSessEtryNext,
                 readfds, apiVars, last>>

\* lines 394-399: while(1), FD_ZERO, the listener cursor starts at pSrvLstRoot
Run_Top ==
  /\ pc = "top"
  /\ readfds' = {} /\ pSrvEtry' = Root(pSrvLst) /\ pc' = "fdsetSrv"
  /\ UNCHANGED <<toVisit, reg, lastAccept, engineVars, srv, sess, iSocks, pSessEtry, pSessEtryNext,
                 apiVars, last>>

\* lines 399-405: one listener entry's sockets are added; past the last entry
\* lines 408-412 add every session's socket
Run_FdSet ==
  /\ pc = "fdsetSrv"
  /\ IF pSrvEtry # NULL
       THEN /\ readfds' = readfds \cup
                 {LstnSock(pSrvEtry, i) : i \in 1..relpSrvGetNumLstnSocks(pSrvEtry)}
            /\ pSrvEtry' = NextOf(pSrvLst, pSrvEtry)
            /\ UNCHANGED pc
       ELSE /\ readfds' = readfds \cup {SessSock(pSessLst[i]) : i \in 1..Len(pSessLst)}
            /\ pc' = "dbg"
            /\ UNCHANGED pSrvEtry
  /\ UNCHANGED <<toVisit, reg, lastAccept, engineVars, srv, sess, iSocks, pSessEtry, pSessEtryNext,
                 apiVars, last>>

\* lines 417-423: the descriptors are printed unless the pointer is
\* dbgprintDummy; a NULL pointer is not dbgprintDummy and is called
Run_Dbg ==
  /\ pc = "dbg"
  /\ pc' = (IF dbgprint = "NULL" THEN "crashed" ELSE "select")
  /\ UNCHANGED <<toVisit, reg, lastAccept, engineVars, srv, sess, pSrvEtry, iSocks, pSessEtry, pSessEtryNext,
                 readfds, apiVars, last>>

\* lines 426-430: select() blocks until some descriptor of the set is ready and
\* leaves the ready ones in readfds; the result is printed. Every descriptor is
\* tested at most once per pass (its listener in lines 430-443, its session in
\* lines 446-463), so the bit select() reports for it is drawn where FD_ISSET
\* tests it, and readfds keeps the set handed to select()
Run_Select ==
  /\ pc = "select" /\ readfds # {}
  /\ pc' = (IF dbgprint = "NULL" THEN "crashed" ELSE "accept")
  /\ pSrvEtry' = Root(pSrvLst) /\ iSocks' = 1
  /\ UNCHANGED <<toVisit, reg, lastAccept, engineVars, srv, sess, pSessEtry, pSessEtryNext,
                 readfds, apiVars, last>>

\* FD_ISSET(sock, &readfds) after select(): the descriptor was handed to
\* select() and select() reported it ready
FD_ISSET(sock, rdy) == sock \in readfds /\ rdy

\* relpEngineAddToSess that links the new entry in front of pRoot
AddToSess_List_Prepends(lst, e) == <<e>> \o lst

\* relpEngineAddToSess, line 232: the list with the new entry
AddToSess_List(lst, e) == DLL_Add(lst, e)

\* lines 430-443, up to the mutex of relpEngineAddToSess: one listen socket of
\* the listener under the cursor. rdy: select() reported the socket; acc: the
\* result of relpSessAcceptAndConstruct; mem: the calloc of the list entry
\* succeeds. localRet is not looked at (line 439): whatever the accept or the
\* insertion returned, the loop goes on with the next listen socket, and a
\* session that was constructed but not inserted stays as it is
Run_Accept(rdy, acc, mem) ==
  /\ pc = "accept"
  /\ IF pSrvEtry = NULL
       THEN /\ pSessEtry' = Root(pSessLst) /\ pc' = "scan"
            /\ lastAccept' = NoAccept
            /\ toVisit' = pSessLst
            /\ UNCHANGED <<pSrvEtry, iSocks, sess, pSessLst, lenSessLst, mutSessLst>>
     ELSE IF iSocks > relpSrvGetNumLstnSocks(pSrvEtry)
       THEN /\ pSrvEtry' = NextOf(pSrvLst, pSrvEtry) /\ iSocks' = 1
            /\ lastAccept' = NoAccept
            /\ UNCHANGED <<toVisit, pc, pSessEtry, sess, pSessLst, lenSessLst, mutSessLst>>
     ELSE IF ~FD_ISSET(LstnSock(pSrvEtry, iSocks), rdy)
       THEN /\ iSocks' = iSocks + 1
            /\ lastAccept' = NoAccept
            /\ UNCHANGED <<toVisit, pc, pSrvEtry, pSessEtry, sess, pSessLst, lenSessLst, mutSessLst>>
     ELSE IF acc # RELP_RET_OK
       THEN /\ iSocks' = iSocks + 1
            /\ lastAccept' = [sock |-> LstnSock(pSrvEtry, iSocks), srv |-> pSrvEtry,
                              accRet |-> acc, ret |-> acc, sess |-> NULL]
            /\ UNCHANGED <<toVisit, pc, pSrvEtry, pSessEtry, sess, pSessLst, lenSessLst, mutSessLst>>
     ELSE IF ~mem
       THEN /\ FreshSess # NULL
            /\ sess' = [sess EXCEPT ![FreshSess] = NewSess]
            /\ iSocks' = iSocks + 1
            /\ lastAccept' = [sock |-> LstnSock(pSrvEtry, iSocks), srv |-> pSrvEtry,
                              accRet |-> acc, ret |-> RELP_RET_OUT_OF_MEMORY,
                              sess |-> FreshSess]
            /\ UNCHANGED <<toVisit, pc, pSrvEtry, pSessEtry, pSessLst, lenSessLst, mutSessLst>>
     ELSE /\ FreshSess # NULL
          /\ mutSessLst = "free"
          /\ sess' = [sess EXCEPT ![FreshSess] = NewSess]
          /\ mutSessLst' = "run"
          /\ pSessLst' = AddToSess_List(pSessLst, FreshSess)
          /\ lenSessLst' = lenSessLst + 1
          /\ pc' = "addSess"
          /\ lastAccept' = [sock |-> LstnSock(pSrvEtry, iSocks), srv |-> pSrvEtry,
                            accRet |-> acc, ret |-> RELP_RET_OK, sess |-> FreshSess]
          /\ UNCHANGED <<toVisit, pSrvEtry, iSocks, pSessEtry>>
  /\ UNCHANGED <<reg, pSrvLst, lenSrvLst, mutSrvLst, dbgprint, srv, pSessEtryNext,
                 readfds, apiVars, last>>

\* relpEngineAddToSess, line 234, and line 440: the mutex is released, the
\* next listen socket follows
Run_AddSessUnlock ==
  /\ pc = "addSess"
  /\ mutSessLst' = "free"
  /\ iSocks' = iSocks + 1 /\ pc' = "accept"
  /\ lastAccept' = NoAccept
  /\ UNCHANGED <<toVisit, reg, pSrvLst, lenSrvLst, mutSrvLst, pSessLst, lenSessLst, dbgprint, srv, sess,
                 pSrvEtry, pSessEtry, pSessEtryNext, readfds, apiVars, last>>

\* the sessions still to be visited once session e has been visited
Visited(q, e) == IF q # <<>> /\ Head(q) = e THEN Tail(q) ELSE q

\* lines 446-457 and 460-463: the session under the cursor; its successor is
\* cached, a ready socket is read, a failed read is reported to the debug
\* function and the session is handed to relpEngineDelSess
Run_Scan(rdy) ==
  /\ pc = "scan"
  /\ IF pSessEtry = NULL
       THEN /\ pc' = "top" /\ last' = NoLast /\ toVisit' = <<>>
            /\ UNCHANGED <<pSessEtry, pSessEtryNext, sess>>
     ELSE IF ~FD_ISSET(SessSock(pSessEtry), rdy)
       THEN /\ pSessEtryNext' = NextOf(pSessLst, pSessEtry)
            /\ pSessEtry' = NextOf(pSessLst, pSessEtry)
            /\ last' = NoLast
            /\ toVisit' = Visited(toVisit, pSessEtry)
            /\ UNCHANGED <<pc, sess>>
     ELSE \E r \in relpSessRcvData(sess[pSessEtry]) :
               /\ pSessEtryNext' = NextOf(pSessLst, pSessEtry)
               /\ sess' = [sess EXCEPT ![pSessEtry] = r.sess]
               /\ last' = [sess |-> pSessEtry, ret |-> r.ret, disp |-> r.disp,
                           logged |-> MustTearDown(r.ret) /\ dbgprint = "user"]
               /\ toVisit' = Visited(toVisit, pSessEtry)
               /\ IF MustTearDown(r.ret)
                    THEN pc' = "delSess" /\ UNCHANGED pSessEtry
                    ELSE pSessEtry' = NextOf(pSessLst, pSessEtry) /\ UNCHANGED pc
  /\ UNCHANGED <<reg, lastAccept, engineVars, srv, pSrvEtry, iSocks, readfds, apiVars>>

\* a relpEngineDelSess that cuts the list at the entry: the entries behind it
\* are lost with it
DelSess_List_CutsTail(lst, e) ==
  SubSeq(lst, 1, (CHOOSE i \in 1..Len(lst) : lst[i] = e) - 1)

\* a relpEngineDelSess that forgets to unlink the entry
DelSess_List_KeepsEntry(lst, e) == lst

\* relpEngineDelSess, line 252: the list without the entry
DelSess_List(lst, e) == DLL_Del(lst, e)

\* relpEngineDelSess, lines 251-253: the entry is unlinked under the mutex
DelSess_Unlink ==
  /\ pc = "delSess" /\ mutSessLst = "free"
  /\ mutSessLst' = "run"
  /\ last' = [last EXCEPT !.disp = NoDisp]
  /\ pSessLst' = DelSess_List(pSessLst, pSessEtry)
  /\ lenSessLst' = lenSessLst - 1
  /\ pc' = "delSessFree"
  /\ UNCHANGED <<toVisit, reg, lastAccept, pSrvLst, lenSrvLst, mutSrvLst, dbgprint, srv, sess, pSrvEtry, iSocks,
                 pSessEtry, pSessEtryNext, readfds, apiVars>>

\* a loop that reads pNext of the entry it has just freed
AfterTearDown_FollowsFreed(cached, lst, e) == NextOf(lst, e)

\* line 462 after a teardown: the cursor takes the successor cached at line
\* 447, the freed entry e is not looked at
AfterTearDown(cached, lst, e) == cached

\* relpEngineDelSess, lines 254-257, and line 462: the mutex is released, the
\* session is destructed, the entry freed; the cursor moves to the cached
\* successor
DelSess_Free ==
  /\ pc = "delSessFree"
  /\ mutSessLst' = "free"
  /\ sess' = [sess EXCEPT ![pSessEtry] = FreedSess]
  /\ pSessEtry' = AfterTearDown(pSessEtryNext, pSessLst, pSessEtry)
  /\ pc' = "scan"
  /\ UNCHANGED <<toVisit, reg, lastAccept, pSrvLst, lenSrvLst, mutSrvLst, pSessLst, lenSessLst, dbgprint, srv,
                 pSrvEtry, iSocks, pSessEtryNext, readfds, apiVars, last>>

relpEngineRun ==
  \/ Run_Enter
  \/ Run_Top
  \/ Run_FdSet
  \/ Run_Dbg
  \/ Run_Select
  \/ \E rdy \in BOOLEAN, acc \in AcceptResults, mem \in BOOLEAN : Run_Accept(rdy, acc, mem)
  \/ Run_AddSessUnlock
  \/ \E rdy \in BOOLEAN : Run_Scan(rdy)
  \/ DelSess_Unlink
  \/ DelSess_Free

Embedder ==
  \/ \E f \in {"NULL", "user"} : relpEngineSetDbgprint(f)
  \/ \E ok \in BOOLEAN, n \in 1..MaxLstnSocks, mem \in BOOLEAN : relpEngineAddListner(ok, n, mem)
  \/ AddListner_Return
  \/ AddToSrvList_Lock
  \/ AddToSrvList_Add
  \/ AddToSrvList_Unlock

Next == relpEngineRun \/ Embedder

Spec == Init /\ [][Next]_vars

\* the same system with an embedder that may ask the engine to stop; the
\* engine's thread is scheduled: a step of relpEngineRun that can be taken is
\* eventually taken
NextStop == relpEngineRun \/ Embedder \/ PostShutdown

FairSpec == Init /\ [][NextStop]_vars /\ WF_vars(relpEngineRun)

\* relpEngineDestruct: the mutexes are destroyed and the engine object is
\* freed; line 304 is a TODO, nothing is checked and neither list is looked at.
\* The embedder makes no further call
relpEngineDestruct ==
  /\ pc # "crashed" /\ apiPc = "idle"
  /\ apiPc' = "destructed"
  /\ UNCHANGED <<toVisit, reg, lastAccept, engineVars, srv, sess, runVars, apiSrv, last>>

\* the engine object has been freed
destructed == apiPc = "destructed"

\* relpEngineRun on a freed engine: every access through pThis is undefined;
\* the freed memory may still read as before (the loop's other steps), or the
\* access faults
Run_UseAfterFree ==
  /\ destructed /\ pc \notin {"notStarted", "crashed"}
  /\ pc' = "crashed"
  /\ UNCHANGED <<toVisit, reg, lastAccept, engineVars, srv, sess, pSrvEtry, iSocks, pSessEtry,
                 pSessEtryNext, readfds, apiVars, last>>

\* the same system with an embedder that may destruct the engine
NextLife == relpEngineRun \/ Embedder \/ relpEngineDestruct \/ Run_UseAfterFree

LifeSpec == Init /\ [][NextLife]_vars

\* ------------------------------------------- a session's registry at work
\* the session negotiated its window
RegInit == EngineInit /\ \E w \in 1..MaxWindow : reg = NewRegistry(w)

\* the session issues a command
Reg_Assign ==
  /\ reg' = assign(reg)
  /\ UNCHANGED <<toVisit, engineVars, srv, sess, runVars, apiVars, last, lastAccept>>

\* a response of the peer arrives; the peer answers in any order and may
\* answer what was never asked
Reg_Resolve(t) ==
  /\ reg' = resolve(reg, t)
  /\ UNCHANGED <<toVisit, engineVars, srv, sess, runVars, apiVars, last, lastAccept>>

\* the session is torn down
Reg_CancelAll ==
  /\ reg' = cancel_all(reg)
  /\ UNCHANGED <<toVisit, engineVars, srv, sess, runVars, apiVars, last, lastAccept>>

RegNext == Reg_Assign \/ (\E t \in 1..MAX_TXNR : Reg_Resolve(t)) \/ Reg_CancelAll

RegSpec == RegInit /\ [][RegNext]_vars

\* ------------------------------------------------------------- properties
\* the loop is inside relpEngineDelSess for session s
TearingDown(s) ==
  \/ pc = "delSess" /\ pSessEtry = s /\ InList(pSessLst, s) /\ sess[s].life = "live"
  \/ pc = "delSessFree" /\ pSessEtry = s /\ ~InList(pSessLst, s) /\ sess[s].life = "live"

\* session s is out of the session list and destructed
Gone(s) == ~InList(pSessLst, s) /\ sess[s] = FreedSess

\* the session states before OPEN
PreOpen == {"INIT", "OFFERS", "GO_WAIT"}

\* the commands the session state machine admits in a state
ValidIn(state) ==
  IF state \in PreOpen THEN {"init", "rsp", "go"}
  ELSE IF state = "OPEN" THEN {"msg", "rsp", "close", "abort"}
  ELSE {}

\* relpEngineRun holds a cursor into the listener list
RunTraversesSrvLst == pc \in {"fdsetSrv", "accept"} /\ pSrvEtry # NULL

\* C1: a session whose receive returned anything but RELP_RET_OK is inside
\* relpEngineDelSess or, once the loop is back at the session pass, out of the
\* session list and destructed; the loop waits in select() again only after
\* the pass. A session whose receive returned RELP_RET_OK is still in the list
\* and alive.
C1_ErrorTearsSessionDown ==
  last.sess # NULL =>
    IF last.ret # RELP_RET_OK
      THEN /\ pc \in {"delSess", "delSessFree", "scan"}
           /\ pc = "scan" => Gone(last.sess)
           /\ pc # "scan" => TearingDown(last.sess)
      ELSE /\ pc = "scan"
           /\ InList(pSessLst, last.sess)
           /\ sess[last.sess].life = "live"

C1_Witness ==
  /\ last.sess # NULL /\ last.ret = RELP_RET_IO_ERR
  /\ pc = "scan" /\ Gone(last.sess)

\* C2: the steps that fail and tear down one session (the failed receive, the
\* unlink, the destruct) leave the listener list, its counter and the listeners
\* as they were, keep every other session in the list in the same order and
\* with the same state, and the loop goes on with the session that followed.
C2_ErrorStaysInSession ==
  [][(pc' # pc /\ (pc' = "delSess" \/ pc \in {"delSess", "delSessFree"})) =>
       /\ pSrvLst' = pSrvLst /\ lenSrvLst' = lenSrvLst /\ srv' = srv
       /\ pSessLst' = (IF pc = "delSess"
                         THEN SelectSeq(pSessLst, LAMBDA x : x # pSessEtry)
                         ELSE pSessLst)
       /\ \A s \in SessIds \ {pSessEtry} : sess'[s] = sess[s]
       /\ pSessEtryNext' = NextOf(pSessLst', pSessEtry) \/ pc # "scan"
       /\ pc = "delSess" => pc' = "delSessFree"
       /\ pc = "delSessFree" =>
            /\ pc' = "scan" /\ pSessEtry' = pSessEtryNext
            /\ pSessEtryNext # NULL => InList(pSessLst', pSessEtryNext)
    ]_vars

C2_Witness ==
  /\ last.sess # NULL /\ last.ret # RELP_RET_OK
  /\ pc = "scan" /\ Gone(last.sess)
  /\ pSessEtry # NULL /\ InList(pSessLst, pSessEtry)
  /\ sess[pSessEtry].state = "OFFERS"
  /\ pSrvLst # <<>>

\* C3: dispatching a frame whose command relpEngineDispatchFrame does not
\* know calls no handler, leaves the session as it was and returns
\* RELP_RET_INVALID_CMD; the receive returns that result and the session is
\* handed to relpEngineDelSess, which removes and destructs it.
C3_UnknownCommandAborts ==
  /\ (last.disp.cmd \notin RecognizedCmds \cup {"none"}) =>
        /\ last.disp.ret = RELP_RET_INVALID_CMD
        /\ last.disp.handler = "none"
        /\ last.disp.same
        /\ last.ret = RELP_RET_INVALID_CMD
        /\ pc = "delSess" /\ TearingDown(last.sess)
  /\ last.ret = RELP_RET_INVALID_CMD => TearingDown(last.sess) \/ Gone(last.sess)

C3_Witness ==
  /\ last.disp.cmd = UnknownCmd /\ last.disp.ret = RELP_RET_INVALID_CMD
  /\ pc = "delSess" /\ pSessEtry = last.sess

\* C4: every command of the protocol (init, go, msg, close, rsp, abort) is
\* known to relpEngineDispatchFrame: a frame that carries it is not answered
\* RELP_RET_INVALID_CMD and, in a state that admits the command, its handler
\* is called.
C4_DefinedCommandsAreRecognized ==
  last.disp.cmd \in DefinedCmds =>
    /\ last.disp.ret # RELP_RET_INVALID_CMD
    /\ last.disp.cmd \in ValidIn(last.disp.pre) => last.disp.handler = last.disp.cmd

C6_OnlyHandshakeBeforeOpen ==
  (last.disp.cmd # "none" /\ last.disp.pre \in PreOpen) =>
    /\ last.disp.ret = RELP_RET_OK => last.disp.cmd \in {"init", "rsp", "go"}
    /\ last.disp.cmd \notin {"init", "rsp", "go"} =>
         /\ last.disp.ret # RELP_RET_OK
         /\ last.disp.handler = "none"
         /\ last.disp.rsp = 0
         /\ pc = "delSess" /\ TearingDown(last.sess)

C6_Witness ==
  /\ last.disp.cmd = "msg" /\ last.disp.pre = "INIT"
  /\ last.disp.ret # RELP_RET_OK
  /\ pc = "delSess" /\ pSessEtry = last.sess

\* C7: a go frame dispatched on a session that has not processed init fails
\* and the session is torn down.
C7_GoBeforeInitIsRefused ==
  (last.disp.cmd = "go" /\ last.disp.pre = "INIT") =>
    last.disp.ret # RELP_RET_OK /\ TearingDown(last.sess)

\* C8: a go frame dispatched on a session that has processed init and that is
\* accepted puts one rsp 200 with the frame's txnr on the outbound queue and
\* leaves the session in state OPEN.
C8_GoOpensSession ==
  (last.disp.cmd = "go" /\ last.disp.pre \in {"OFFERS", "GO_WAIT"}
     /\ last.disp.ret = RELP_RET_OK) =>
    last.disp.post = "OPEN" /\ last.disp.rsp = 1

\* C9: once the embedder has asked the engine to stop while the run loop is
\* alive and waits in select on at least one socket, relpEngineRun eventually
\* returns (a loop that ends by crashing is counted as ended, too).
C9_RunReturnsAfterShutdown ==
  (shutdown /\ pc = "select" /\ readfds # {}) ~> (pc \in {"returned", "crashed"})

\* C10: relpEngineRun never holds a cursor into the listener list while
\* relpEngineAddToSrvList, on the embedder's thread, is inside the section
\* the list's mutex guards.
C10_NoTraversalInsideCriticalSection ==
  ~(apiPc \in {"add", "inc"} /\ RunTraversesSrvLst)

\* a step of relpEngineRun that accepts on the listen socket under the cursor
AcceptStep ==
  pc = "accept" /\ lastAccept'.sock # NULL /\ <<pc, iSocks>>' # <<pc, iSocks>>

C12_FatalAcceptRemovesListener ==
  /\ lastAccept.accRet = RELP_RET_ACCEPT_ERR => ~InList(pSrvLst, lastAccept.srv)
  /\ lastAccept.accRet = RELP_RET_ACCEPT_RETRY => InList(pSrvLst, lastAccept.srv)

\* C13: when relpEngineDestruct has freed the engine, the listener list and
\* the session list are empty.
C13_DestructOnlyWhenEmpty ==
  destructed => pSrvLst = <<>> /\ pSessLst = <<>>

\* C14: the registry never holds more pending commands than window_size; an
\* assign() made while the window is full returns WindowExhausted, and an
\* assign() that returns WindowExhausted assigned no txnr, left next_send_txnr
\* and the pending commands as they were and put no frame on the wire. The
\* responses may arrive in any order.
C14_WindowBoundsOutstanding ==
  [][/\ Len(reg'.outstanding) <= reg'.window_size
     /\ (reg' # reg /\ reg'.op = "assign" /\ Len(reg.outstanding) >= reg.window_size) =>
          reg'.ret = WindowExhausted
     /\ (reg' # reg /\ reg'.ret = WindowExhausted) =>
          /\ reg'.op = "assign"
          /\ Len(reg.outstanding) = reg.window_size
          /\ reg'.txnr = 0 /\ ~reg'.sent
          /\ reg'.next_send_txnr = reg.next_send_txnr
          /\ reg'.outstanding = reg.outstanding
    ]_vars

C14_Witness ==
  /\ reg.op = "assign" /\ reg.ret = WindowExhausted
  /\ reg.window_size = 2 /\ reg.outstanding = <<1, 3>>

\* C15: an assign() that succeeds gives the command a txnr in 1..MAX_TXNR (0
\* is never assigned), the successor of the txnr assigned before it, with 1
\* following MAX_TXNR, and no pending command carries that txnr already.
C15_TxnrIncreasesAndIsUnique ==
  [][(reg' # reg /\ reg'.op = "assign" /\ reg'.ret = RELP_RET_OK) =>
       /\ reg'.txnr \in 1..MAX_TXNR
       /\ reg'.txnr = reg.next_send_txnr
       /\ reg'.next_send_txnr = (IF reg'.txnr = MAX_TXNR THEN 1 ELSE reg'.txnr + 1)
       /\ \A k \in 1..Len(reg.outstanding) : reg.outstanding[k] # reg'.txnr
    ]_vars

\* C16: where relpEngineRun is about to call the debug print pointer (lines
\* 417-418 and 427) the pointer is dbgprintDummy or a function of the
\* embedder, never NULL, and the loop never faults on it.
C16_DebugSinkIsCallable ==
  /\ pc \in {"dbg", "select"} => dbgprint \in {"dummy", "user"}
  /\ pc # "crashed"

\* C17: every session that is alive is an entry of the session list, or is the
\* entry relpEngineDelSess has just unlinked and is about to destruct; after
\* an accept step whose insertion failed the session it constructed is not
\* alive.
C17_LiveSessionsAreOwned ==
  /\ \A s \in SessIds :
       sess[s].life = "live" =>
         InList(pSessLst, s) \/ (pc = "delSessFree" /\ pSessEtry = s)
  /\ (lastAccept.sess # NULL /\ lastAccept.ret # RELP_RET_OK) =>
       sess[lastAccept.sess].life # "live"

\* the embedder's thread is at finalize_it of a failed relpEngineAddListner
AddListnerFailed(at) == at \in {"finalize_OOM", "finalize_ERR"}

\* C18: a relpEngineAddListner that fails, and its return, leave the listener
\* list, its counter and the listeners as they were; the listener list changes
\* only inside relpEngineAddToSrvList, by appending the listener of a call whose
\* construct, set-port and start all succeeded, and the counter only there, by
\* one, for the listener just linked.
C18_FailedAddLeavesListAlone ==
  [][/\ (apiPc' # apiPc /\ (AddListnerFailed(apiPc') \/ AddListnerFailed(apiPc))) =>
          /\ pSrvLst' = pSrvLst /\ lenSrvLst' = lenSrvLst /\ srv' = srv
          /\ AddListnerFailed(apiPc') => apiPc = "idle"
          /\ AddListnerFailed(apiPc) => apiPc' = "idle"
     /\ pSrvLst' # pSrvLst =>
          /\ apiPc = "add" /\ apiPc' = "inc"
          /\ srv[apiSrv].life = "live"
          /\ ~InList(pSrvLst, apiSrv)
          /\ pSrvLst' = Append(pSrvLst, apiSrv)
     /\ lenSrvLst' # lenSrvLst =>
          /\ apiPc = "inc" /\ apiPc' = "idle"
          /\ InList(pSrvLst, apiSrv)
          /\ lenSrvLst' = lenSrvLst + 1
    ]_vars

C18_Witness ==
  /\ apiPc = "finalize_OOM"
  /\ pSrvLst = <<>> /\ lenSrvLst = 0
  /\ \A s \in SrvIds : srv[s].life = "unborn"
  /\ pc = "select"

\* C19: the counters are never negative; lenSessLst is the number of entries
\* linked in the session list, and lenSrvLst the number of entries linked in
\* the listener list whenever relpEngineAddToSrvList is not between its DLL_Add
\* and its increment, where the entry just linked is not counted yet; after an
\* accept whose insertion failed and after a failed relpEngineAddListner the
\* counters match the lists, too.
C19_CountersMatchLists ==
  /\ lenSrvLst >= 0 /\ lenSessLst >= 0
  /\ lenSessLst = Len(pSessLst)
  /\ lenSrvLst = (IF apiPc = "inc" THEN Len(pSrvLst) - 1 ELSE Len(pSrvLst))
  /\ mutSrvLst = "free" => lenSrvLst = Len(pSrvLst)
  /\ Cardinality({pSessLst[i] : i \in 1..Len(pSessLst)}) = Len(pSessLst)
  /\ Cardinality({pSrvLst[i] : i \in 1..Len(pSrvLst)}) = Len(pSrvLst)

C19_Witness ==
  /\ pc = "scan" /\ mutSessLst = "free" /\ mutSrvLst = "free"
  /\ lenSessLst = 1 /\ Len(pSessLst) = 1
  /\ \E s \in SessIds : Gone(s)
  /\ lenSrvLst = 1 /\ Len(pSrvLst) = 1
  /\ lastAccept = NoAccept

\* C20: in a session pass the cursor is always the first of the sessions of
\* the pass's start that are not visited yet, a linked entry with a live
\* session, and the pass ends exactly when none is left: every such session is
\* visited once, in list order. The successor cached before a teardown is the
\* next session due and is still linked; a destructed session is in no list,
\* is not due and is not under the cursor; a session is read only if its socket
\* was in the set handed to select().
C20_ScanVisitsEachOnce ==
  /\ pc = "scan" =>
       /\ (pSessEtry = NULL) <=> (toVisit = <<>>)
       /\ pSessEtry # NULL =>
            /\ Head(toVisit) = pSessEtry
            /\ InList(pSessLst, pSessEtry)
            /\ sess[pSessEtry].life = "live"
  /\ pc \in {"delSess", "delSessFree"} =>
       /\ pSessEtryNext = (IF toVisit = <<>> THEN NULL ELSE Head(toVisit))
       /\ pSessEtryNext # NULL =>
            InList(pSessLst, pSessEtryNext) /\ sess[pSessEtryNext].life = "live"
  /\ \A i \in 1..Len(toVisit) :
       /\ InList(pSessLst, toVisit[i])
       /\ \A j \in 1..Len(toVisit) : toVisit[i] = toVisit[j] => i = j
  /\ \A s \in SessIds :
       sess[s] = FreedSess =>
         /\ ~InList(pSessLst, s)
         /\ pc = "scan" => pSessEtry # s
  /\ last.sess # NULL => SessSock(last.sess) \in readfds

C20_Witness ==
  /\ pc = "scan" /\ last.sess # NULL /\ last.ret # RELP_RET_OK /\ Gone(last.sess)
  /\ pSessEtry # NULL /\ toVisit = <<pSessEtry>>
  /\ pSessLst = <<pSessEtry>> /\ last.sess < pSessEtry

====
